---- MODULE Spec2Model ----
(***************************************************************************)
(* Marketplace settlement of the AI art gallery backend:                   *)
(* purchase_artwork and place_bid of gallery/views.py, run by concurrent   *)
(* request handlers against one database in autocommit mode (every ORM     *)
(* statement is its own atomic step; no handler opens a transaction).      *)
(*                                                                         *)
(* Money is counted in ten-thousandths of a currency unit, so that         *)
(* price * Decimal('0.05') is exact in memory, as it is for Decimal, and   *)
(* the rounding to two decimal places happens where a row is written.      *)
(***************************************************************************)
EXTENDS Integers, Sequences, FiniteSets, TLC

\* ------------------------------------------------------------------ bounds

\* handler invocations started in one behaviour
MaxCalls == 2
\* last instant of the clock
MaxTime == 2

\* ---------------------------------------------------------------- universe

Users == {"alice", "bob", "carol"}
ArtIds == {"a1", "a2"}
\* an artwork id no row has
MissingId == "a0"
Requests == {"r1", "r2"}
NoUser == "nobody"

\* one cent, in ten-thousandths: DecimalField(decimal_places=2)
Cent == 100

\* prices the artwork serializer accepts (any decimal of two places, of either sign)
Prices == {-1000, 1000, 4000}
\* bid amounts a client may send
Amounts == {500, 1000, 1500}

VARIABLES
    profiles,       \* UserProfile rows: user -> [wallet_balance, total_sales]
    artworks,       \* Artwork rows: id -> record
    bids,           \* Bid rows, in insertion order
    transactions,   \* Transaction rows, in insertion order
    notifications,  \* Notification rows, in insertion order
    likes,          \* Like rows: pairs <<user, artwork>> (unique together)
    now,            \* timezone.now()
    pc,             \* request -> position of its handler
    local,          \* request -> the handler's local variables
    response,       \* request -> the last response the handler returned
    calls           \* handler invocations started so far

vars == <<profiles, artworks, bids, transactions, notifications, likes, now, pc,
          local, response, calls>>

db == <<profiles, artworks, bids, transactions, notifications, likes>>

\* the rows of the database: the fields of models.py the two handlers use
TypeOK ==
    /\ \A u \in Users : profiles[u].wallet_balance \in Int /\ profiles[u].total_sales \in Int
    /\ \A id \in ArtIds :
          /\ artworks[id].owner \in Users
          /\ artworks[id].price \in Int
          /\ artworks[id].is_for_sale \in BOOLEAN
          /\ artworks[id].is_auction \in BOOLEAN
          /\ artworks[id].status \in {"draft", "published", "sold", "archived"}
    /\ \A i \in 1..Len(bids) :
          /\ bids[i].artwork \in ArtIds
          /\ bids[i].bidder \in Users
          /\ bids[i].is_winning \in BOOLEAN
    /\ \A i \in 1..Len(transactions) :
          /\ transactions[i].buyer \in Users
          /\ transactions[i].seller \in Users
          /\ transactions[i].artwork \in ArtIds
    /\ \A i \in 1..Len(notifications) : notifications[i].user \in Users
    /\ likes \subseteq Users \X ArtIds
    /\ now \in 0..MaxTime
    /\ calls \in 0..MaxCalls

\* ------------------------------------------------------------ field storage

\* A DecimalField of two places as the database stores it: the value is
\* quantized to a whole number of cents, halves to the even cent.
Quantize(x) ==
    LET q == x \div Cent
        r == x % Cent
    IN  IF 2 * r < Cent THEN q * Cent
        ELSE IF 2 * r > Cent THEN (q + 1) * Cent
        ELSE IF q % 2 = 0 THEN q * Cent ELSE (q + 1) * Cent

\* UserProfile.save(): every column is written from the instance
StoredProfile(p) ==
    [wallet_balance |-> Quantize(p.wallet_balance),
     total_sales |-> Quantize(p.total_sales)]

\* platform_fee = artwork.price * Decimal('0.05')
PlatformFee(price) == (price * 5) \div 100

NullArtwork ==
    [owner |-> NoUser, price |-> 0, is_for_sale |-> FALSE, is_auction |-> FALSE,
     auction_end_time |-> {}, minimum_bid |-> 0, status |-> "draft",
     likes_count |-> 0]

NullProfile == [wallet_balance |-> 0, total_sales |-> 0]

\* request.data of an artwork update that names no field; a field the request
\* names holds its value in a set of one element
NoData == [is_for_sale |-> {}, is_auction |-> {}, status |-> {}]

\* a handler's local variables before it has assigned any of them
NoLocals ==
    [view |-> "none", user |-> NoUser, artwork_id |-> MissingId, amount |-> 0,
     artwork |-> NullArtwork, attrs_artwork |-> NullArtwork,
     buyer_profile |-> NullProfile, seller_profile |-> NullProfile,
     platform_fee |-> 0, seller_amount |-> 0, old_owner |-> NoUser,
     previous_bidder |-> NoUser, data |-> NoData, profile |-> NullProfile]

\* ------------------------------------------------------------------- queries

\* Artwork.objects.get(id=artwork_id) finds a row
ArtworkExists(id) == id \in ArtIds

\* indices of the Bid rows of an artwork
BidsOf(id) == {i \in 1..Len(bids) : bids[i].artwork = id}

\* artwork.bids.first() under Meta.ordering = ['-amount']: a row of the greatest
\* amount (which one of several equal rows is the database's choice)
HighestBids(id) ==
    {i \in BidsOf(id) : \A j \in BidsOf(id) : bids[j].amount <= bids[i].amount}

\* previous_bids = Bid.objects.filter(artwork).exclude(bidder=user).order_by('-amount')
PreviousBids(id, user) == {i \in BidsOf(id) : bids[i].bidder # user}

PreviousFirst(id, user) ==
    {i \in PreviousBids(id, user) :
        \A j \in PreviousBids(id, user) : bids[j].amount <= bids[i].amount}

\* ----------------------------------------------------------- handler plumbing

Goto(r, label, newLocal) ==
    /\ pc' = [pc EXCEPT ![r] = label]
    /\ local' = [local EXCEPT ![r] = newLocal]
    /\ UNCHANGED response

\* return Response(...): the handler ends and its locals are gone
Respond(r, kind) ==
    /\ pc' = [pc EXCEPT ![r] = "idle"]
    /\ local' = [local EXCEPT ![r] =
                    [NoLocals EXCEPT !.view = local[r].view, !.user = local[r].user,
                                     !.artwork_id = local[r].artwork_id,
                                     !.amount = local[r].amount]]
    /\ response' = [response EXCEPT ![r] = kind]

\* ------------------------------------------------------------- purchase_artwork

\* POST purchase/<artwork_id>/ arrives from an authenticated user
PurchaseRequest(r, u, id) ==
    /\ pc[r] = "idle"
    /\ calls < MaxCalls
    /\ calls' = calls + 1
    /\ pc' = [pc EXCEPT ![r] = "p_get_artwork"]
    /\ local' = [local EXCEPT ![r] =
                    [NoLocals EXCEPT !.view = "purchase", !.user = u, !.artwork_id = id]]
    /\ response' = [response EXCEPT ![r] = "pending"]
    /\ UNCHANGED <<db, now>>

\* artwork = Artwork.objects.get(id=artwork_id), then the checks that need no
\* further query: is_for_sale and owner == request.user
PurchaseGetArtwork(r) ==
    /\ pc[r] = "p_get_artwork"
    /\ IF ~ArtworkExists(local[r].artwork_id)
         THEN Respond(r, "not_found")
       ELSE LET artwork == artworks[local[r].artwork_id] IN
            IF ~artwork.is_for_sale THEN Respond(r, "not_for_sale")
            ELSE IF artwork.owner = local[r].user THEN Respond(r, "own_artwork")
            ELSE Goto(r, "p_buyer_profile", [local[r] EXCEPT !.artwork = artwork])
    /\ UNCHANGED <<db, now, calls>>

\* buyer_profile = UserProfile.objects.get_or_create(user=request.user)[0]
PurchaseBuyerProfile(r) ==
    /\ pc[r] = "p_buyer_profile"
    /\ Goto(r, "p_seller_profile",
            [local[r] EXCEPT !.buyer_profile = profiles[local[r].user]])
    /\ UNCHANGED <<db, now, calls>>

\* the mutant of PurchaseSellerProfile: the buyer is debited before the balance
\* is compared with the price
PurchaseSellerProfileDebitFirst(r) ==
    /\ pc[r] = "p_seller_profile"
    /\ LET l == local[r]
           debited == [l.buyer_profile EXCEPT
                          !.wallet_balance = @ - l.artwork.price]
       IN  /\ profiles' = [profiles EXCEPT ![l.user] = StoredProfile(debited)]
           /\ IF debited.wallet_balance < 0
                THEN Respond(r, "insufficient_balance")
              ELSE Goto(r, "p_save_seller",
                        [l EXCEPT !.buyer_profile = debited,
                                  !.seller_profile = profiles[l.artwork.owner],
                                  !.platform_fee = PlatformFee(l.artwork.price),
                                  !.seller_amount =
                                      l.artwork.price - PlatformFee(l.artwork.price)])
    /\ UNCHANGED <<artworks, bids, transactions, notifications, likes, now, calls>>

\* seller_profile = UserProfile.objects.get_or_create(user=artwork.owner)[0],
\* the balance check, and the fee arithmetic
PurchaseSellerProfile(r) ==
    /\ pc[r] = "p_seller_profile"
    /\ LET l == local[r] IN
       IF l.buyer_profile.wallet_balance < l.artwork.price
         THEN Respond(r, "insufficient_balance")
       ELSE Goto(r, "p_save_buyer",
                 [l EXCEPT !.seller_profile = profiles[l.artwork.owner],
                           !.platform_fee = PlatformFee(l.artwork.price),
                           !.seller_amount =
                               l.artwork.price - PlatformFee(l.artwork.price)])
    /\ UNCHANGED <<db, now, calls>>

\* buyer_profile.wallet_balance -= artwork.price; buyer_profile.save()
PurchaseSaveBuyer(r) ==
    /\ pc[r] = "p_save_buyer"
    /\ LET l == local[r]
           p == [l.buyer_profile EXCEPT !.wallet_balance = @ - l.artwork.price]
       IN  /\ profiles' = [profiles EXCEPT ![l.user] = StoredProfile(p)]
           /\ Goto(r, "p_save_seller", [l EXCEPT !.buyer_profile = p])
    /\ UNCHANGED <<artworks, bids, transactions, notifications, likes, now, calls>>

\* the mutant of PurchaseSaveSeller: the seller is credited the full price
PurchaseSaveSellerFullPrice(r) ==
    /\ pc[r] = "p_save_seller"
    /\ LET l == local[r]
           p == [wallet_balance |-> l.seller_profile.wallet_balance + l.artwork.price,
                 total_sales |-> l.seller_profile.total_sales + l.artwork.price]
       IN  /\ profiles' = [profiles EXCEPT ![l.artwork.owner] = StoredProfile(p)]
           /\ Goto(r, "p_save_artwork", [l EXCEPT !.seller_profile = p])
    /\ UNCHANGED <<artworks, bids, transactions, notifications, likes, now, calls>>

\* the mutant of PurchaseSaveSeller: the write of the seller's wallet waits
\* while another purchase that has debited that wallet has not yet credited its
\* own seller
PurchaseSaveSellerWaits(r) ==
    /\ pc[r] = "p_save_seller"
    /\ \A q \in Requests \ {r} :
          ~(pc[q] = "p_save_seller" /\ local[q].user = local[r].artwork.owner)
    /\ LET l == local[r]
           p == [wallet_balance |-> l.seller_profile.wallet_balance + l.seller_amount,
                 total_sales |-> l.seller_profile.total_sales + l.artwork.price]
       IN  /\ profiles' = [profiles EXCEPT ![l.artwork.owner] = StoredProfile(p)]
           /\ Goto(r, "p_save_artwork", [l EXCEPT !.seller_profile = p])
    /\ UNCHANGED <<artworks, bids, transactions, notifications, likes, now, calls>>

\* seller_profile.wallet_balance += seller_amount
\* seller_profile.total_sales += artwork.price; seller_profile.save()
PurchaseSaveSeller(r) ==
    /\ pc[r] = "p_save_seller"
    /\ LET l == local[r]
           p == [wallet_balance |-> l.seller_profile.wallet_balance + l.seller_amount,
                 total_sales |-> l.seller_profile.total_sales + l.artwork.price]
       IN  /\ profiles' = [profiles EXCEPT ![l.artwork.owner] = StoredProfile(p)]
           /\ Goto(r, "p_save_artwork", [l EXCEPT !.seller_profile = p])
    /\ UNCHANGED <<artworks, bids, transactions, notifications, likes, now, calls>>

\* old_owner = artwork.owner; artwork.owner = request.user
\* artwork.is_for_sale = False; artwork.status = 'sold'; artwork.save()
PurchaseSaveArtwork(r) ==
    /\ pc[r] = "p_save_artwork"
    /\ LET l == local[r]
           a == [l.artwork EXCEPT !.owner = l.user, !.is_for_sale = FALSE,
                                  !.status = "sold"]
       IN  /\ artworks' = [artworks EXCEPT ![l.artwork_id] = a]
           /\ Goto(r, "p_create_transaction",
                   [l EXCEPT !.old_owner = l.artwork.owner, !.artwork = a])
    /\ UNCHANGED <<profiles, bids, transactions, notifications, likes, now, calls>>

\* Transaction.objects.create(transaction_type='purchase', ..., status='completed')
PurchaseCreateTransaction(r) ==
    /\ pc[r] = "p_create_transaction"
    /\ LET l == local[r] IN
       transactions' = Append(transactions,
            [transaction_type |-> "purchase", buyer |-> l.user,
             seller |-> l.old_owner, artwork |-> l.artwork_id,
             amount |-> Quantize(l.artwork.price),
             platform_fee |-> Quantize(l.platform_fee),
             status |-> "completed"])
    /\ Goto(r, "p_notify", local[r])
    /\ UNCHANGED <<profiles, artworks, bids, notifications, likes, now, calls>>

\* Notification.objects.create(user=old_owner, notification_type='sale', ...)
\* and the success response
PurchaseNotify(r) ==
    /\ pc[r] = "p_notify"
    /\ notifications' = Append(notifications,
            [user |-> local[r].old_owner, notification_type |-> "sale",
             artwork |-> local[r].artwork_id])
    /\ Respond(r, "success")
    /\ UNCHANGED <<profiles, artworks, bids, transactions, likes, now, calls>>

\* positions of purchase_artwork at which the next statement is a database write
PurchaseWrites ==
    {"p_save_buyer", "p_save_seller", "p_save_artwork", "p_create_transaction",
     "p_notify"}

\* positions of place_bid at which the next statement is a database write
BidWrites == {"b_clear_winning", "b_create_bid", "b_notify_owner", "b_notify_outbid"}

\* The database raises in the statement a handler is about to run (connection
\* lost, lock timeout): the exception leaves the view and the request ends with
\* a server error. Rows written by earlier statements stay written: the view
\* runs in autocommit mode.
StorageFailure(r) ==
    /\ pc[r] \in PurchaseWrites \cup BidWrites
    /\ Respond(r, "server_error")
    /\ UNCHANGED <<db, now, calls>>

\* -------------------------------------------------------------------- place_bid

\* POST bid/<artwork_id>/ arrives from an authenticated user with an amount
BidRequest(r, u, id, amount) ==
    /\ pc[r] = "idle"
    /\ calls < MaxCalls
    /\ calls' = calls + 1
    /\ pc' = [pc EXCEPT ![r] = "b_get_artwork"]
    /\ local' = [local EXCEPT ![r] =
                    [NoLocals EXCEPT !.view = "bid", !.user = u, !.artwork_id = id,
                                     !.amount = amount]]
    /\ response' = [response EXCEPT ![r] = "pending"]
    /\ UNCHANGED <<db, now>>

\* artwork = Artwork.objects.get(id=artwork_id)
BidGetArtwork(r) ==
    /\ pc[r] = "b_get_artwork"
    /\ IF ~ArtworkExists(local[r].artwork_id)
         THEN Respond(r, "not_found")
       ELSE Goto(r, "b_validate",
                 [local[r] EXCEPT !.artwork = artworks[local[r].artwork_id]])
    /\ UNCHANGED <<db, now, calls>>

\* serializer.is_valid(): the artwork field is resolved to its row (a second
\* read of the artwork), then BidSerializer.validate checks is_auction and
\* minimum_bid on that row
BidValidate(r) ==
    /\ pc[r] = "b_validate"
    /\ LET artwork == artworks[local[r].artwork_id] IN
       IF ~artwork.is_auction THEN Respond(r, "not_auction")
       ELSE IF local[r].amount < artwork.minimum_bid THEN Respond(r, "bid_too_low")
       ELSE Goto(r, "b_highest_bid", [local[r] EXCEPT !.attrs_artwork = artwork])
    /\ UNCHANGED <<db, now, calls>>

\* the mutant of NotHigher: a bid equal to the highest bid passes
NotHigherOnlyBelow(amount, highest) == amount < highest

\* the comparison BidSerializer.validate makes with the highest bid
NotHigher(amount, highest) == amount <= highest

\* the view's test that the auction has ended
AuctionEnded(artwork, t) == \E e \in artwork.auction_end_time : e < t

\* highest_bid = artwork.bids.first() and its comparison with the amount, then
\* the view's check of auction_end_time against timezone.now()
BidHighestBid(r) ==
    /\ pc[r] = "b_highest_bid"
    /\ LET l == local[r]
           highest == HighestBids(l.artwork_id)
       IN  IF \E i \in highest : NotHigher(l.amount, bids[i].amount)
             THEN Respond(r, "bid_too_low")
           ELSE IF AuctionEnded(l.artwork, now) THEN Respond(r, "auction_ended")
           ELSE Goto(r, "b_clear_winning", l)
    /\ UNCHANGED <<db, now, calls>>

\* Bid.objects.filter(artwork=artwork, is_winning=True).update(is_winning=False)
BidClearWinning(r) ==
    /\ pc[r] = "b_clear_winning"
    /\ bids' = [i \in 1..Len(bids) |->
                  IF bids[i].artwork = local[r].artwork_id
                    THEN [bids[i] EXCEPT !.is_winning = FALSE]
                  ELSE bids[i]]
    /\ Goto(r, "b_create_bid", local[r])
    /\ UNCHANGED <<profiles, artworks, transactions, notifications, likes, now, calls>>

\* bid = Bid.objects.create(artwork, bidder=request.user, amount, is_winning=True)
BidCreateBid(r) ==
    /\ pc[r] = "b_create_bid"
    /\ bids' = Append(bids,
            [artwork |-> local[r].artwork_id, bidder |-> local[r].user,
             amount |-> Quantize(local[r].amount), is_winning |-> TRUE])
    /\ Goto(r, "b_notify_owner", local[r])
    /\ UNCHANGED <<profiles, artworks, transactions, notifications, likes, now, calls>>

\* Notification.objects.create(user=artwork.owner, notification_type='bid', ...)
BidNotifyOwner(r) ==
    /\ pc[r] = "b_notify_owner"
    /\ notifications' = Append(notifications,
            [user |-> local[r].artwork.owner, notification_type |-> "bid",
             artwork |-> local[r].artwork_id])
    /\ Goto(r, "b_previous_bids", local[r])
    /\ UNCHANGED <<profiles, artworks, bids, transactions, likes, now, calls>>

\* previous_bids.exists() and previous_bids.first().bidder, compared with the owner
BidPreviousBids(r) ==
    /\ pc[r] = "b_previous_bids"
    /\ LET l == local[r]
           first == PreviousFirst(l.artwork_id, l.user)
       IN  IF first = {} THEN Respond(r, "created")
           ELSE \E i \in first :
                  IF bids[i].bidder # l.artwork.owner
                    THEN Goto(r, "b_notify_outbid",
                              [l EXCEPT !.previous_bidder = bids[i].bidder])
                  ELSE Respond(r, "created")
    /\ UNCHANGED <<db, now, calls>>

\* Notification.objects.create(user=previous_bidder, notification_type='outbid', ...)
\* and the 201 response
BidNotifyOutbid(r) ==
    /\ pc[r] = "b_notify_outbid"
    /\ notifications' = Append(notifications,
            [user |-> local[r].previous_bidder, notification_type |-> "outbid",
             artwork |-> local[r].artwork_id])
    /\ Respond(r, "created")
    /\ UNCHANGED <<profiles, artworks, bids, transactions, likes, now, calls>>

\* time passes
Tick ==
    /\ now < MaxTime
    /\ now' = now + 1
    /\ UNCHANGED <<db, pc, local, response, calls>>

\* -------------------------------------------- ArtworkViewSet.partial_update

\* bodies of PATCH artworks/<id>/ that ArtworkCreateSerializer validates: the
\* fields is_for_sale, is_auction and status are writable and have no validator
\* beyond their type and the choices of status
Patches ==
    {[NoData EXCEPT !.is_for_sale = {TRUE}],
     [NoData EXCEPT !.is_auction = {TRUE}],
     [NoData EXCEPT !.status = {"sold"}]}

\* ModelSerializer.update: every field of the validated data is set on the
\* instance
Patched(artwork, data) ==
    [artwork EXCEPT
        !.is_for_sale = IF data.is_for_sale = {} THEN @
                        ELSE CHOOSE v \in data.is_for_sale : TRUE,
        !.is_auction = IF data.is_auction = {} THEN @
                       ELSE CHOOSE v \in data.is_auction : TRUE,
        !.status = IF data.status = {} THEN @
                   ELSE CHOOSE v \in data.status : TRUE]

\* get_queryset for an authenticated user: Q(status='published') | Q(owner=user)
Visible(artwork, user) == artwork.status = "published" \/ artwork.owner = user

\* PATCH artworks/<id>/ arrives from an authenticated user
\* (IsAuthenticatedOrReadOnly: the user need not own the artwork)
UpdateRequest(r, u, id, data) ==
    /\ pc[r] = "idle"
    /\ calls < MaxCalls
    /\ calls' = calls + 1
    /\ pc' = [pc EXCEPT ![r] = "u_get_object"]
    /\ local' = [local EXCEPT ![r] =
                    [NoLocals EXCEPT !.view = "update", !.user = u,
                                     !.artwork_id = id, !.data = data]]
    /\ response' = [response EXCEPT ![r] = "pending"]
    /\ UNCHANGED <<db, now>>

\* instance = self.get_object(): the row of that id in get_queryset(), or 404
UpdateGetObject(r) ==
    /\ pc[r] = "u_get_object"
    /\ IF ~ArtworkExists(local[r].artwork_id)
         THEN Respond(r, "not_found")
       ELSE LET artwork == artworks[local[r].artwork_id] IN
            IF ~Visible(artwork, local[r].user) THEN Respond(r, "not_found")
            ELSE Goto(r, "u_save", [local[r] EXCEPT !.artwork = artwork])
    /\ UNCHANGED <<db, now, calls>>

\* serializer.save(): the validated fields are set on the instance and
\* instance.save() writes every column of the row from the instance
UpdateSave(r) ==
    /\ pc[r] = "u_save"
    /\ artworks' = [artworks EXCEPT ![local[r].artwork_id] =
                        Patched(local[r].artwork, local[r].data)]
    /\ Respond(r, "updated")
    /\ UNCHANGED <<profiles, bids, transactions, notifications, likes, now, calls>>

\* ----------------------------------------------------------- ArtworkViewSet.like

\* POST artworks/<id>/like/ arrives from an authenticated user
LikeRequest(r, u, id) ==
    /\ pc[r] = "idle"
    /\ calls < MaxCalls
    /\ calls' = calls + 1
    /\ pc' = [pc EXCEPT ![r] = "l_get_object"]
    /\ local' = [local EXCEPT ![r] =
                    [NoLocals EXCEPT !.view = "like", !.user = u, !.artwork_id = id]]
    /\ response' = [response EXCEPT ![r] = "pending"]
    /\ UNCHANGED <<db, now>>

\* artwork = self.get_object(): the row of that id in get_queryset(), or 404
LikeGetObject(r) ==
    /\ pc[r] = "l_get_object"
    /\ IF ~ArtworkExists(local[r].artwork_id)
         THEN Respond(r, "not_found")
       ELSE LET artwork == artworks[local[r].artwork_id] IN
            IF ~Visible(artwork, local[r].user) THEN Respond(r, "not_found")
            ELSE Goto(r, "l_get_or_create", [local[r] EXCEPT !.artwork = artwork])
    /\ UNCHANGED <<db, now, calls>>

\* like, created = Like.objects.get_or_create(user=request.user, artwork=artwork)
LikeGetOrCreate(r) ==
    /\ pc[r] = "l_get_or_create"
    /\ LET row == <<local[r].user, local[r].artwork_id>> IN
       IF row \in likes
         THEN /\ Goto(r, "l_delete", local[r])
              /\ UNCHANGED likes
       ELSE /\ likes' = likes \cup {row}
            /\ Goto(r, "l_save_liked", local[r])
    /\ UNCHANGED <<profiles, artworks, bids, transactions, notifications, now, calls>>

\* like.delete(); artwork.likes_count = max(0, artwork.likes_count - 1)
LikeDelete(r) ==
    /\ pc[r] = "l_delete"
    /\ likes' = likes \ {<<local[r].user, local[r].artwork_id>>}
    /\ Goto(r, "l_save_unliked",
            [local[r] EXCEPT !.artwork.likes_count = IF @ - 1 < 0 THEN 0 ELSE @ - 1])
    /\ UNCHANGED <<profiles, artworks, bids, transactions, notifications, now, calls>>

\* artwork.save() of the unlike branch: every column of the row is written from
\* the instance get_object read; then the response
LikeSaveUnliked(r) ==
    /\ pc[r] = "l_save_unliked"
    /\ artworks' = [artworks EXCEPT ![local[r].artwork_id] = local[r].artwork]
    /\ Respond(r, "unliked")
    /\ UNCHANGED <<profiles, bids, transactions, notifications, likes, now, calls>>

\* artwork.likes_count += 1; artwork.save(): every column of the row is written
\* from the instance get_object read; then the test artwork.owner != request.user
LikeSaveLiked(r) ==
    /\ pc[r] = "l_save_liked"
    /\ LET a == [local[r].artwork EXCEPT !.likes_count = @ + 1] IN
       /\ artworks' = [artworks EXCEPT ![local[r].artwork_id] = a]
       /\ IF a.owner # local[r].user
            THEN Goto(r, "l_notify", [local[r] EXCEPT !.artwork = a])
          ELSE Respond(r, "liked")
    /\ UNCHANGED <<profiles, bids, transactions, notifications, likes, now, calls>>

\* Notification.objects.create(user=artwork.owner, notification_type='like', ...)
\* and the response
LikeNotify(r) ==
    /\ pc[r] = "l_notify"
    /\ notifications' = Append(notifications,
            [user |-> local[r].artwork.owner, notification_type |-> "like",
             artwork |-> local[r].artwork_id])
    /\ Respond(r, "liked")
    /\ UNCHANGED <<profiles, artworks, bids, transactions, likes, now, calls>>

\* --------------------------------------------------------------- update_profile

\* PUT auth/profile/ arrives from an authenticated user
ProfileRequest(r, u) ==
    /\ pc[r] = "idle"
    /\ calls < MaxCalls
    /\ calls' = calls + 1
    /\ pc' = [pc EXCEPT ![r] = "f_get_profile"]
    /\ local' = [local EXCEPT ![r] = [NoLocals EXCEPT !.view = "profile", !.user = u]]
    /\ response' = [response EXCEPT ![r] = "pending"]
    /\ UNCHANGED <<db, now>>

\* profile, _ = UserProfile.objects.get_or_create(user=request.user)
ProfileGet(r) ==
    /\ pc[r] = "f_get_profile"
    /\ Goto(r, "f_save", [local[r] EXCEPT !.profile = profiles[local[r].user]])
    /\ UNCHANGED <<db, now, calls>>

\* serializer.save(): wallet_balance and total_sales are read-only fields of the
\* serializer, and profile.save() writes every column of the row, these two
\* from the values read by get_or_create
ProfileSave(r) ==
    /\ pc[r] = "f_save"
    /\ profiles' = [profiles EXCEPT ![local[r].user] = StoredProfile(local[r].profile)]
    /\ Respond(r, "updated")
    /\ UNCHANGED <<artworks, bids, transactions, notifications, likes, now, calls>>

\* ------------------------------------------------------------- specifications

\* wallet balances before the first request (alice has not funded her wallet)
InitialProfiles ==
    [u \in Users |->
        [wallet_balance |-> IF u = "alice" THEN 0 ELSE 3000, total_sales |-> 0]]

\* a published fixed-price listing, as ArtworkCreateSerializer.create stores it
Listing(owner, price) ==
    [owner |-> owner, price |-> price, is_for_sale |-> TRUE, is_auction |-> FALSE,
     auction_end_time |-> {}, minimum_bid |-> 0, status |-> "published",
     likes_count |-> 0]

\* a published auction, as ArtworkCreateSerializer.create stores it
Auction(owner, minimum_bid, end_time) ==
    [owner |-> owner, price |-> 0, is_for_sale |-> FALSE, is_auction |-> TRUE,
     auction_end_time |-> end_time, minimum_bid |-> minimum_bid,
     status |-> "published", likes_count |-> 0]

InitRequests ==
    /\ bids = <<>>
    /\ likes = {}
    /\ transactions = <<>>
    /\ notifications = <<>>
    /\ now = 0
    /\ pc = [r \in Requests |-> "idle"]
    /\ local = [r \in Requests |-> NoLocals]
    /\ response = [r \in Requests |-> "none"]
    /\ calls = 0

\* the price field of ArtworkCreateSerializer: a decimal of at most two places;
\* the field has no minimum, so a negative price validates
ValidPrice(p) == Quantize(p) = p

\* the user who created an artwork (perform_create: owner = request.user)
InitialOwner(id) == IF id = "a1" THEN "alice" ELSE "bob"

\* two fixed-price listings, of alice and of bob
InitPurchase ==
    /\ profiles = InitialProfiles
    /\ \E p1, p2 \in {p \in Prices : ValidPrice(p)} :
          artworks = [id \in ArtIds |->
                        Listing(InitialOwner(id), IF id = "a1" THEN p1 ELSE p2)]
    /\ InitRequests

\* a fixed-price listing of alice and an auction of bob, with or without end time
InitBid ==
    /\ profiles = InitialProfiles
    /\ \E e \in {{}, {1}} :
          artworks = [id \in ArtIds |->
                        IF id = "a1" THEN Listing(InitialOwner(id), 1000)
                        ELSE Auction(InitialOwner(id), 1000, e)]
    /\ InitRequests

PurchaseStep(r) ==
    \/ \E u \in Users, id \in ArtIds \cup {MissingId} : PurchaseRequest(r, u, id)
    \/ PurchaseGetArtwork(r)
    \/ PurchaseBuyerProfile(r)
    \/ PurchaseSellerProfile(r)
    \/ PurchaseSaveBuyer(r)
    \/ PurchaseSaveSeller(r)
    \/ PurchaseSaveArtwork(r)
    \/ PurchaseCreateTransaction(r)
    \/ PurchaseNotify(r)

BidStep(r) ==
    \/ \E u \in Users, id \in ArtIds \cup {MissingId}, amount \in Amounts :
          BidRequest(r, u, id, amount)
    \/ BidGetArtwork(r)
    \/ BidValidate(r)
    \/ BidHighestBid(r)
    \/ BidClearWinning(r)
    \/ BidCreateBid(r)
    \/ BidNotifyOwner(r)
    \/ BidPreviousBids(r)
    \/ BidNotifyOutbid(r)

\* concurrent purchases over a database that does not fail
NextPurchase == \E r \in Requests : PurchaseStep(r)

SpecPurchase == InitPurchase /\ [][NextPurchase]_vars

\* concurrent purchases over a database that may fail in any write
NextPurchaseFailure == \E r \in Requests : PurchaseStep(r) \/ StorageFailure(r)

SpecPurchaseFailure == InitPurchase /\ [][NextPurchaseFailure]_vars

\* concurrent bids while time passes
NextBid == Tick \/ \E r \in Requests : BidStep(r)

SpecBid == InitBid /\ [][NextBid]_vars

\* wallet balances of the serial runs: a seller holding 0.01, a buyer holding
\* 50.00 and a buyer holding 150.00
SerialProfiles ==
    [u \in Users |->
        [wallet_balance |-> IF u = "alice" THEN 100
                            ELSE IF u = "bob" THEN 500000 ELSE 1500000,
         total_sales |-> 0]]

\* prices of the serial runs: 0.10 and 0.30 (5% is not a whole number of
\* cents), 100.00, and a negative price
SerialPrices == {-1000, 1000, 3000, 1000000}

InitSerial ==
    /\ profiles = SerialProfiles
    /\ \E p1, p2 \in {p \in SerialPrices : ValidPrice(p)} :
          artworks = [id \in ArtIds |->
                        Listing(InitialOwner(id), IF id = "a1" THEN p1 ELSE p2)]
    /\ InitRequests

\* purchases that run one at a time: a handler takes a step only while no other
\* handler is running
NextSerial ==
    \E r \in Requests :
        /\ \A q \in Requests \ {r} : pc[q] = "idle"
        /\ PurchaseStep(r)

SpecSerial == InitSerial /\ [][NextSerial]_vars

\* the rows of artwork id, listed by seller at price, after buyer has bought it:
\* what purchase_artwork leaves when it has run alone from InitialProfiles
SoldId == "a2"
SoldBuyer == "carol"
SoldPrice == 1000

SoldProfiles ==
    LET seller == InitialOwner(SoldId)
        fee == PlatformFee(SoldPrice)
    IN  [InitialProfiles EXCEPT
            ![SoldBuyer] = StoredProfile([@ EXCEPT !.wallet_balance = @ - SoldPrice]),
            ![seller] = StoredProfile([wallet_balance |-> @.wallet_balance
                                                            + (SoldPrice - fee),
                                       total_sales |-> @.total_sales + SoldPrice])]

SoldArtwork ==
    [Listing(InitialOwner(SoldId), SoldPrice) EXCEPT
        !.owner = SoldBuyer, !.is_for_sale = FALSE, !.status = "sold"]

SoldTransaction ==
    [transaction_type |-> "purchase", buyer |-> SoldBuyer,
     seller |-> InitialOwner(SoldId), artwork |-> SoldId,
     amount |-> Quantize(SoldPrice),
     platform_fee |-> Quantize(PlatformFee(SoldPrice)), status |-> "completed"]

SoldNotification ==
    [user |-> InitialOwner(SoldId), notification_type |-> "sale", artwork |-> SoldId]

\* a listing of alice, and an artwork carol has bought from bob
InitGallery ==
    /\ profiles = SoldProfiles
    /\ artworks = [id \in ArtIds |->
                    IF id = SoldId THEN SoldArtwork
                    ELSE Listing(InitialOwner(id), 1000)]
    /\ bids = <<>>
    /\ transactions = <<SoldTransaction>>
    /\ notifications = <<SoldNotification>>
    /\ likes = {}
    /\ now = 0
    /\ pc = [r \in Requests |-> "idle"]
    /\ local = [r \in Requests |-> NoLocals]
    /\ response = [r \in Requests |-> "none"]
    /\ calls = 0

UpdateStep(r) ==
    \/ \E u \in Users, id \in ArtIds \cup {MissingId}, data \in Patches :
          UpdateRequest(r, u, id, data)
    \/ UpdateGetObject(r)
    \/ UpdateSave(r)

ProfileStep(r) ==
    \/ \E u \in Users : ProfileRequest(r, u)
    \/ ProfileGet(r)
    \/ ProfileSave(r)

\* concurrent purchases, artwork updates and profile updates
NextGallery == \E r \in Requests : PurchaseStep(r) \/ UpdateStep(r) \/ ProfileStep(r)

SpecGallery == InitGallery /\ [][NextGallery]_vars

\* bid amounts of the serial auction: 5.00, 10.00, 15.00 and 20.00
SerialAmounts == {500, 1000, 1500, 2000}

\* the rows place_bid leaves when carol has bid the minimum on the auction of
\* bob and no other call has run
PriorBid == [artwork |-> "a2", bidder |-> "carol", amount |-> 1000, is_winning |-> TRUE]

PriorNotification == [user |-> "bob", notification_type |-> "bid", artwork |-> "a2"]

\* a listing of alice and an auction of bob with minimum bid 10.00, with or
\* without end time, with no bid or with the bid of carol
InitBidSerial ==
    /\ profiles = InitialProfiles
    /\ \E e \in {{}, {1}} :
          artworks = [id \in ArtIds |->
                        IF id = "a1" THEN Listing(InitialOwner(id), 1000)
                        ELSE Auction(InitialOwner(id), 1000, e)]
    /\ \/ bids = <<>> /\ notifications = <<>>
       \/ bids = <<PriorBid>> /\ notifications = <<PriorNotification>>
    /\ transactions = <<>>
    /\ likes = {}
    /\ now = 0
    /\ pc = [r \in Requests |-> "idle"]
    /\ local = [r \in Requests |-> NoLocals]
    /\ response = [r \in Requests |-> "none"]
    /\ calls = 0

BidSerialStep(r) ==
    \/ \E u \in Users, id \in ArtIds \cup {MissingId}, amount \in SerialAmounts :
          BidRequest(r, u, id, amount)
    \/ BidGetArtwork(r)
    \/ BidValidate(r)
    \/ BidHighestBid(r)
    \/ BidClearWinning(r)
    \/ BidCreateBid(r)
    \/ BidNotifyOwner(r)
    \/ BidPreviousBids(r)
    \/ BidNotifyOutbid(r)

\* bids that run one at a time while time passes: a handler takes a step only
\* while no other handler is running
NextBidSerial ==
    \/ Tick
    \/ \E r \in Requests :
          /\ \A q \in Requests \ {r} : pc[q] = "idle"
          /\ BidSerialStep(r)

SpecBidSerial == InitBidSerial /\ [][NextBidSerial]_vars

\* wallet balances of the market: every user holds 0.30
FundedProfiles == [u \in Users |-> [wallet_balance |-> 3000, total_sales |-> 0]]

\* an artwork as ArtworkCreateSerializer.create stores it when the request sets
\* is_for_sale and is_auction both: no validator relates the two fields
ListingAndAuction(owner, price, minimum_bid) ==
    [Listing(owner, price) EXCEPT !.is_auction = TRUE, !.minimum_bid = minimum_bid]

\* an artwork of alice that is for sale and in auction, and a listing of bob
InitMarket ==
    /\ profiles = FundedProfiles
    /\ artworks = [id \in ArtIds |->
                    IF id = "a1" THEN ListingAndAuction(InitialOwner(id), 1000, 1000)
                    ELSE Listing(InitialOwner(id), 1000)]
    /\ InitRequests

\* concurrent purchases and bids
NextMarket == \E r \in Requests : PurchaseStep(r) \/ BidStep(r)

SpecMarket == InitMarket /\ [][NextMarket]_vars

\* a handler that has started keeps taking steps: the server runs every
\* request thread, and no statement of either view waits for another request
SpecMarketFair ==
    SpecMarket /\ \A r \in Requests : WF_vars(PurchaseStep(r) \/ BidStep(r))

LikeStep(r) ==
    \/ \E u \in Users, id \in ArtIds \cup {MissingId} : LikeRequest(r, u, id)
    \/ LikeGetObject(r)
    \/ LikeGetOrCreate(r)
    \/ LikeDelete(r)
    \/ LikeSaveUnliked(r)
    \/ LikeSaveLiked(r)
    \/ LikeNotify(r)

\* two listings of 0.10, of alice and of bob
InitLike ==
    /\ profiles = InitialProfiles
    /\ artworks = [id \in ArtIds |-> Listing(InitialOwner(id), 1000)]
    /\ InitRequests

\* concurrent purchases and like toggles
NextLike == \E r \in Requests : PurchaseStep(r) \/ LikeStep(r)

SpecLike == InitLike /\ [][NextLike]_vars

\* purchases and bids together
Init == InitBid

Next == Tick \/ \E r \in Requests : PurchaseStep(r) \/ BidStep(r) \/ StorageFailure(r)

Spec == Init /\ [][Next]_vars

\* --------------------------------------------------------------------- claims

\* no handler is running: every call that was started has returned
AllIdle == \A r \in Requests : pc[r] = "idle"

\* the responses of purchase_artwork to a failed precondition
PurchaseErrors == {"not_found", "not_for_sale", "own_artwork", "insufficient_balance"}

\* the positions of purchase_artwork before its first write
PurchaseReads == {"p_get_artwork", "p_buyer_profile", "p_seller_profile"}

\* request r has returned from a purchase of artwork id
Purchased(r, id) ==
    /\ pc[r] = "idle"
    /\ local[r].view = "purchase"
    /\ local[r].artwork_id = id

\* C1. No double-sale: when two purchases of the same listed artwork (of a price
\* that is not negative), by distinct buyers who are not its owner and can each
\* pay the price, are the only calls
\* made and both have returned without a server error, exactly one has
\* succeeded, the other has failed a precondition, and the artwork belongs to
\* the one that succeeded.
C1_NoDoubleSale ==
    \A id \in ArtIds : \A r1, r2 \in Requests :
        ( /\ r1 # r2
          /\ calls = 2
          /\ artworks[id].price >= 0
          /\ Purchased(r1, id) /\ Purchased(r2, id)
          /\ local[r1].user # local[r2].user
          /\ \A r \in {r1, r2} :
                /\ local[r].user # InitialOwner(id)
                /\ InitialProfiles[local[r].user].wallet_balance >= artworks[id].price
                /\ response[r] # "server_error" )
        => /\ response[r1] = "success" => response[r2] \in PurchaseErrors
           /\ response[r2] = "success" => response[r1] \in PurchaseErrors
           /\ response[r1] = "success" \/ response[r2] = "success"
           /\ \A r \in {r1, r2} :
                response[r] = "success" => artworks[id].owner = local[r].user

\* the Bid rows of an artwork that are flagged is_winning
Winning(id) == {i \in BidsOf(id) : bids[i].is_winning}

\* C2. Single winner: in every reachable state, the states inside place_bid
\* included, at most one Bid of each artwork has is_winning = true.
C2_SingleWinner == \A id \in ArtIds : Cardinality(Winning(id)) <= 1

RECURSIVE SpentAsBuyer(_, _)
\* the sum of amount over the first n Transactions that are completed and have
\* u as buyer
SpentAsBuyer(u, n) ==
    IF n = 0 THEN 0
    ELSE SpentAsBuyer(u, n - 1)
         + (IF transactions[n].buyer = u /\ transactions[n].status = "completed"
              THEN transactions[n].amount ELSE 0)

RECURSIVE EarnedAsSeller(_, _)
\* the sum of amount - platform_fee over the first n Transactions that are
\* completed and have u as seller
EarnedAsSeller(u, n) ==
    IF n = 0 THEN 0
    ELSE EarnedAsSeller(u, n - 1)
         + (IF transactions[n].seller = u /\ transactions[n].status = "completed"
              THEN transactions[n].amount - transactions[n].platform_fee ELSE 0)

\* C3. Ledger audit: once every purchase that was started has completed (no
\* listing having a negative price), each wallet balance is its initial balance, minus the amounts of the completed
\* Transactions the user bought in, plus amount - platform_fee of those the
\* user sold in.
C3_LedgerAudit ==
    (AllIdle /\ \A id \in ArtIds : artworks[id].price >= 0) =>
        \A u \in Users :
            profiles[u].wallet_balance =
                InitialProfiles[u].wallet_balance
                - SpentAsBuyer(u, Len(transactions))
                + EarnedAsSeller(u, Len(transactions))

\* C4. The winning bid is the maximum: between place_bid calls, a bid flagged
\* is_winning has an amount strictly greater than every other bid of its artwork.
C4_WinningIsMaximum ==
    AllIdle =>
        \A id \in ArtIds : \A i \in Winning(id) : \A j \in BidsOf(id) \ {i} :
            bids[j].amount < bids[i].amount

\* C5. Strict increase: a step that inserts a Bid inserts one whose amount is
\* strictly greater than the amount of every bid of the artwork that is flagged
\* is_winning at that moment.
C5_StrictIncrease ==
    [][Len(bids') = Len(bids) + 1 =>
          \A i \in Winning(bids'[Len(bids')].artwork) :
              bids[i].amount < bids'[Len(bids')].amount]_vars

\* C6. The winning amount never decreases. Every Bid is flagged is_winning in
\* the state its insertion produces and rows are never deleted, so the bids
\* inserted before a bid are the winners of earlier states: a bid flagged
\* is_winning now has an amount no smaller than any bid inserted before it.
C6_WinningNeverDecreases ==
    \A id \in ArtIds : \A j \in Winning(id) : \A i \in BidsOf(id) :
        i < j => bids[i].amount <= bids[j].amount

\* what a purchase may change besides notifications
ledger == <<profiles, artworks, bids, transactions>>

\* C7. A purchase that fails a precondition changes nothing: the handler answers
\* with a precondition error only from a position before its first write, and
\* none of its steps up to that answer changes a wallet, an artwork, a bid, a
\* Transaction or a Notification.
C7_FailedPurchaseChangesNothing ==
    [][\A r \in Requests :
          /\ (pc[r] # "idle" /\ pc'[r] = "idle" /\ response'[r] \in PurchaseErrors)
                => pc[r] \in PurchaseReads
          /\ (pc[r] \in PurchaseReads /\ pc'[r] # pc[r]
                /\ (pc'[r] \in PurchaseReads \/ response'[r] \in PurchaseErrors))
                => UNCHANGED <<ledger, notifications>>]_vars

\* a purchase has been refused for insufficient balance after another purchase
\* moved money
C7_Witness ==
    /\ \E r \in Requests : pc[r] = "idle" /\ response[r] = "insufficient_balance"
    /\ Len(transactions) > 0

\* C8. All-or-nothing settlement: when the only call made is a purchase (of a
\* listing whose price is not negative) that a storage failure has interrupted,
\* every row is as it was before the call.
C8_AllOrNothing ==
    \A r \in Requests :
        (calls = 1 /\ Purchased(r, local[r].artwork_id)
            /\ response[r] = "server_error"
            /\ \A id \in ArtIds : artworks[id].price >= 0)
        => /\ profiles = InitialProfiles
           /\ \A id \in ArtIds :
                /\ artworks[id].owner = InitialOwner(id)
                /\ artworks[id].is_for_sale
                /\ artworks[id].status = "published"
           /\ transactions = <<>>
           /\ notifications = <<>>

\* C9. Wallet balance is never negative.
C9_BalanceNonNegative == \A u \in Users : profiles[u].wallet_balance >= 0

\* C10. total_sales never decreases from a state to the next; stated for the
\* listings whose prices are not negative, where only interleaving can break it.
C10_TotalSalesMonotone ==
    [][(\A id \in ArtIds : artworks[id].price >= 0) =>
          \A u \in Users : profiles'[u].total_sales >= profiles[u].total_sales]_vars

\* ------------------------------------------------- claims on serial purchases

\* the first call made was a purchase of artwork id by request r, it has
\* returned, and no other call has been made
OnlyPurchase(r, id) == calls = 1 /\ Purchased(r, id)

\* C11. Balance equation: after a successful purchase that ran alone (of a
\* listing whose price is not negative), what the buyer's balance lost equals
\* what the seller's balance gained plus the platform_fee of the Transaction.
C11_BalanceEquation ==
    \A r \in Requests : \A id \in ArtIds :
        (OnlyPurchase(r, id) /\ response[r] = "success" /\ artworks[id].price >= 0)
        => LET b == local[r].user
               s == InitialOwner(id)
           IN  SerialProfiles[b].wallet_balance - profiles[b].wallet_balance
                 = profiles[s].wallet_balance - SerialProfiles[s].wallet_balance
                   + transactions[1].platform_fee

RECURSIVE SumBalances(_, _)
\* the sum of the wallet balances of the users of a set
SumBalances(table, users) ==
    IF users = {} THEN 0
    ELSE LET u == CHOOSE x \in users : TRUE
         IN  table[u].wallet_balance + SumBalances(table, users \ {u})

RECURSIVE SumFees(_)
\* the sum of platform_fee over the first n Transactions
SumFees(n) == IF n = 0 THEN 0 ELSE SumFees(n - 1) + transactions[n].platform_fee

C13_SoldStaysSold ==
    \A r \in Requests : Purchased(r, SoldId) => response[r] # "success"

\* C14. A purchase that reads an artwork whose status is sold fails, whatever
\* the value of its is_for_sale flag.
C14_SoldNotPurchasable ==
    [][\A r \in Requests :
          ( /\ pc[r] = "p_get_artwork"
            /\ pc'[r] # pc[r]
            /\ ArtworkExists(local[r].artwork_id)
            /\ artworks[local[r].artwork_id].status = "sold" )
          => /\ pc'[r] = "idle"
             /\ response'[r] \in PurchaseErrors]_vars

\* C15. Postcondition of a successful purchase (of a price that is not
\* negative): when the call returns success, the artwork belongs to the caller,
\* is not for sale and is sold, and a completed purchase Transaction for it
\* exists with buyer = the caller, seller = the owner before the call and
\* amount = the price.
C15_PurchasePostcondition ==
    [][\A r \in Requests :
          (pc[r] = "p_notify" /\ response'[r] = "success" /\ local[r].artwork.price >= 0)
          => LET id == local[r].artwork_id IN
             /\ artworks'[id].owner = local[r].user
             /\ ~artworks'[id].is_for_sale
             /\ artworks'[id].status = "sold"
             /\ \E i \in 1..Len(transactions') :
                   /\ transactions'[i].artwork = id
                   /\ transactions'[i].transaction_type = "purchase"
                   /\ transactions'[i].status = "completed"
                   /\ transactions'[i].buyer = local[r].user
                   /\ transactions'[i].seller = local[r].old_owner
                   /\ transactions'[i].amount = artworks'[id].price]_vars

\* the buyers of the purchase scenario: one holds 50.00, the other 150.00
ScenarioPoor == "bob"
ScenarioRich == "carol"

\* the scenario of C16 on artwork a1 priced 100.00: the buyer holding 50.00 is
\* refused and no balance changes; the buyer holding 150.00 succeeds and keeps
\* 50.00, the seller gains 95.00, the fee recorded is 5.00 and the artwork is
\* sold
PurchaseScenario(r) ==
    (OnlyPurchase(r, "a1") /\ artworks["a1"].price = 1000000) =>
        /\ local[r].user = ScenarioPoor =>
              /\ response[r] = "insufficient_balance"
              /\ profiles = SerialProfiles
        /\ local[r].user = ScenarioRich =>
              /\ response[r] = "success"
              /\ profiles[ScenarioRich].wallet_balance = 500000
              /\ profiles["alice"].wallet_balance
                    = SerialProfiles["alice"].wallet_balance + 950000
              /\ transactions[1].platform_fee = 50000
              /\ artworks["a1"].status = "sold"

\* C16. Fee arithmetic and the purchase scenario: after a successful purchase
\* that ran alone, of a price that is not negative, the buyer has paid the full
\* price, the fee recorded is 5% of the price (to the cent), the seller has
\* gained the price less that fee and the seller's total_sales has grown by the
\* price; and the scenario holds.
C16_FeeArithmetic ==
    \A r \in Requests :
        /\ PurchaseScenario(r)
        /\ \A id \in ArtIds :
            (OnlyPurchase(r, id) /\ response[r] = "success" /\ artworks[id].price >= 0)
            => LET b == local[r].user
                   s == InitialOwner(id)
                   price == artworks[id].price
                   fee == transactions[1].platform_fee
               IN  /\ SerialProfiles[b].wallet_balance - profiles[b].wallet_balance
                        = price
                   /\ 20 * fee - price <= 10 * Cent
                   /\ price - 20 * fee <= 10 * Cent
                   /\ profiles[s].wallet_balance - SerialProfiles[s].wallet_balance
                        = price - fee
                   /\ profiles[s].total_sales - SerialProfiles[s].total_sales = price

\* C17. No artwork has both is_for_sale and is_auction set.
C17_ListingModesExclusive ==
    \A id \in ArtIds : ~(artworks[id].is_for_sale /\ artworks[id].is_auction)

\* C18. Every artwork whose status is sold has is_for_sale = false.
C18_SoldNotForSale ==
    \A id \in ArtIds : artworks[id].status = "sold" => ~artworks[id].is_for_sale

\* the fields only purchase_artwork and place_bid may write
SettlementFields ==
    <<[u \in Users |-> profiles[u].wallet_balance],
      [id \in ArtIds |-> <<artworks[id].owner, artworks[id].status,
                           artworks[id].is_for_sale>>],
      [i \in 1..Len(bids) |-> bids[i].is_winning]>>

\* C19. Exclusive mutation path: a step of a handler other than
\* purchase_artwork and place_bid leaves wallet_balance, owner, status,
\* is_for_sale and is_winning of every row as they were.
C19_ExclusiveMutationPath ==
    [][\A r \in Requests :
          (pc[r] # "idle" /\ pc'[r] # pc[r] /\ local[r].view \notin {"purchase", "bid"})
          => SettlementFields' = SettlementFields]_vars

\* C20. A bid passes the check of the end time only if auction_end_time is
\* unset or strictly later than the time of the check.
C20_OpenOnlyBeforeEnd ==
    [][\A r \in Requests :
          (pc[r] = "b_highest_bid" /\ pc'[r] = "b_clear_winning")
          => \A e \in local[r].artwork.auction_end_time : e > now]_vars

\* ------------------------------------------- claims on auctions and other calls

\* C22. Ownership changes only through a purchase: every step that changes the
\* owner of an artwork is the artwork.save() of a purchase_artwork handler.
C22_OwnerChangesOnlyInPurchase ==
    [][\A id \in ArtIds :
          artworks'[id].owner # artworks[id].owner
          => \E r \in Requests :
                /\ local[r].view = "purchase"
                /\ local[r].artwork_id = id
                /\ pc[r] = "p_save_artwork"
                /\ pc'[r] # pc[r]]_vars

\* request r is between its first read of artwork id and its last write
InProgress(r, id) ==
    /\ local[r].artwork_id = id
    /\ pc[r] \in {"p_buyer_profile", "p_seller_profile", "p_save_buyer",
                  "p_save_seller", "p_save_artwork", "p_create_transaction",
                  "p_notify",
                  "b_validate", "b_highest_bid", "b_clear_winning", "b_create_bid",
                  "b_notify_owner", "b_previous_bids", "b_notify_outbid"}

\* C23. Per-artwork mutual exclusion: no two calls are at the same time between
\* their first read of the same artwork and their last write.
C23_MutualExclusion ==
    \A id \in ArtIds : \A r1, r2 \in Requests :
        (InProgress(r1, id) /\ InProgress(r2, id) /\ artworks[id].price >= 0)
        => r1 = r2

\* C26. Notification failure is decoupled from settlement: a handler that ends at
\* the statement that creates a notification ends with its success response.
C26_NotificationDecoupled ==
    [][\A r \in Requests :
          ( /\ pc[r] \in {"p_notify", "b_notify_owner", "b_notify_outbid"}
            /\ pc'[r] = "idle"
            /\ local[r].artwork.price >= 0 )
          => response'[r] \in {"success", "created"}]_vars

\* C27. Order of the errors of a bid: a bid on an auction whose end time has
\* passed is answered auction-closed, also when its amount is too low.
C27_ClosedBeforeTooLow ==
    [][\A r \in Requests :
          ( /\ local[r].view = "bid"
            /\ pc[r] # "idle"
            /\ pc'[r] = "idle"
            /\ local[r].artwork.is_auction
            /\ AuctionEnded(local[r].artwork, now) )
          => response'[r] = "auction_ended"]_vars

\* C28. A step of a like toggle leaves the owner, the status and is_for_sale of
\* every artwork as they were.
C28_LikeKeepsSettlement ==
    [][\A r \in Requests :
          (local[r].view = "like" /\ pc[r] # "idle" /\ pc'[r] # pc[r])
          => \A id \in ArtIds :
                /\ artworks'[id].owner = artworks[id].owner
                /\ artworks'[id].status = artworks[id].status
                /\ artworks'[id].is_for_sale = artworks[id].is_for_sale]_vars

\* C29. An update request of a user who is not the owner of the artwork leaves
\* the artwork unchanged.
C29_OnlyOwnerUpdates ==
    [][\A r \in Requests :
          ( /\ local[r].view = "update"
            /\ pc[r] # "idle"
            /\ pc'[r] # pc[r]
            /\ ArtworkExists(local[r].artwork_id)
            /\ artworks[local[r].artwork_id].owner # local[r].user )
          => artworks' = artworks]_vars

\* the rows of the bids of artwork id that are winning, before and after a step
WinningRows(rows, id) ==
    {i \in 1..Len(rows) : rows[i].artwork = id /\ rows[i].is_winning}

\* C21. Bid scenario, for bids that run one at a time on an auction whose end
\* time is unset or still ahead: a bid below the minimum bid is rejected and one of at least the
\* minimum goes on to be compared with the bids; with no bids it is accepted,
\* with bids it is accepted when it is strictly higher than all of them and
\* otherwise rejected with every row left as it was; the bid a call creates is
\* the only winning bid of the artwork when the call returns.
C21_BidScenario ==
    [][\A r \in Requests :
          LET l == local[r]
              id == l.artwork_id
              amounts == {bids[i].amount : i \in BidsOf(id)}
              open == \A e \in l.artwork.auction_end_time : e > now
          IN  /\ (pc[r] = "b_validate" /\ pc'[r] # pc[r] /\ artworks[id].is_auction)
                 => IF l.amount < artworks[id].minimum_bid
                      THEN response'[r] = "bid_too_low" /\ UNCHANGED db
                    ELSE pc'[r] = "b_highest_bid"
              /\ (pc[r] = "b_highest_bid" /\ pc'[r] # pc[r] /\ open)
                 => IF \A a \in amounts : l.amount > a
                      THEN pc'[r] = "b_clear_winning"
                    ELSE response'[r] = "bid_too_low" /\ UNCHANGED db
              /\ (pc[r] = "b_create_bid" /\ pc'[r] # pc[r])
                 => /\ Len(bids') = Len(bids) + 1
                    /\ bids'[Len(bids')].bidder = l.user
                    /\ bids'[Len(bids')].amount = l.amount
                    /\ WinningRows(bids', id) = {Len(bids')}
              /\ (pc[r] \in {"b_previous_bids", "b_notify_outbid"} /\ pc'[r] = "idle")
                 => /\ response'[r] = "created"
                    /\ \E i \in BidsOf(id) :
                          /\ WinningRows(bids', id) = {i}
                          /\ bids'[i].bidder = l.user
                          /\ bids'[i].amount = l.amount]_vars

\* a first bid of the minimum was accepted, and a strictly higher bid after it:
\* the higher bid is winning and the first is not
C21_Witness ==
    /\ AllIdle
    /\ Len(bids) = 2
    /\ bids[1].amount = artworks[bids[1].artwork].minimum_bid
    /\ bids[2].amount > bids[1].amount
    /\ ~bids[1].is_winning
    /\ bids[2].is_winning

\* the bid a returning call of request r has created: its bidder's latest row
NewBid(r) ==
    CHOOSE i \in BidsOf(local[r].artwork_id) :
        /\ bids[i].bidder = local[r].user
        /\ \A j \in BidsOf(local[r].artwork_id) : bids[j].bidder = local[r].user => j <= i

\* the bids that were winning before the call of request r created its bid: of
\* bids that ran one at a time, the highest of the other rows
PreviousWinning(r) ==
    LET others == BidsOf(local[r].artwork_id) \ {NewBid(r)} IN
    {i \in others : \A j \in others : bids[j].amount <= bids[i].amount}

\* C25. Outbid addressing, for bids that run one at a time: a call that returns
\* created has emitted an outbid event if and only if a previous winning bid
\* existed whose bidder is neither the new bidder nor the artwork owner, and
\* the event is addressed to that bidder.
C25_OutbidAddressing ==
    [][\A r \in Requests :
          (pc[r] \in {"b_previous_bids", "b_notify_outbid"} /\ response'[r] = "created")
          => LET due == {bids[i].bidder : i \in PreviousWinning(r)}
                          \ {local[r].user, local[r].artwork.owner}
             IN  IF Len(notifications') > Len(notifications)
                   THEN notifications'[Len(notifications')].user \in due
                 ELSE due = {}]_vars

\* C24. No call blocks for ever: under fair scheduling every call that was
\* started returns.
C24_EveryCallReturns ==
    \A r \in Requests : (pc[r] # "idle") ~> (pc[r] = "idle")

\* two purchases are under way at once whose buyers are each other's sellers,
\* each having debited its buyer and about to credit its seller
C24_Witness ==
    \E r1, r2 \in Requests :
        /\ r1 # r2
        /\ pc[r1] = "p_save_seller"
        /\ pc[r2] = "p_save_seller"
        /\ local[r1].user = local[r2].artwork.owner
        /\ local[r2].user = local[r1].artwork.owner

\* C30. Once a completed purchase Transaction exists for an artwork, a bid
\* handler that has read the artwork as sold records no bid: the bids stay as
\* they were.
C30_NoBidAfterSale ==
    [][\A r \in Requests :
          ( /\ pc[r] = "b_create_bid"
            /\ pc'[r] # pc[r]
            /\ local[r].artwork.status = "sold"
            /\ \E i \in 1..Len(transactions) :
                  /\ transactions[i].artwork = local[r].artwork_id
                  /\ transactions[i].status = "completed" )
          => bids' = bids]_vars

====
